---- MODULE Spec2Model ----
(***************************************************************************)
(* Model of the ELSPORT serverless request handlers                        *)
(* netlify/functions/tasks.js (pool created when the module is loaded) and *)
(* netlify/functions/tenders.js (pool created inside the handler) over the *)
(* tasks and tenders tables.  The two unnamed revisions are the same code  *)
(* with the collection swapped: part_000 is the tasks handler with the     *)
(* pool set-up of tenders.js, part_001 the tenders handler with the pool   *)
(* set-up of tasks.js.                                                     *)
(*                                                                         *)
(* One behaviour is one process running one handler module, started over   *)
(* a table that earlier processes may have filled.  A handler              *)
(* invocation has exactly one suspension point, the await on pool.query:   *)
(* Invoke is the synchronous part up to that await (or up to an early      *)
(* return), Complete is the execution of the statement by the database     *)
(* together with the rest of the handler.                                  *)
(*                                                                         *)
(* ClientSpec is the browser side of one record: src/services/api.js       *)
(* turns a fetched row into the record the components hold                 *)
(* (transformTender, transformTask) and that record into the body of an    *)
(* update request (tenderAPI.update, taskAPI.update).                      *)
(***************************************************************************)
EXTENDS Integers, Sequences, FiniteSets, TLC

\* ---- bounds -------------------------------------------------------------
MaxRequests == 2      \* handler invocations in one behaviour
MaxInFlight == 2      \* invocations suspended on pool.query at the same time
MaxSeed == 2          \* rows in the table when the process starts
MaxPathLen == 5       \* tokens of a request path under test
MaxCalls == 2         \* requests a list component makes in one behaviour
MaxVisits == 2        \* entries of a stored site-visit string

\* ---- JavaScript / SQL values ---------------------------------------------
Undefined == "<undefined>"
Null == "<null>"

\* JavaScript truthiness of a string-or-missing value (!id, status || ...)
Falsy(v) == v \in {Undefined, Null, ""}

\* pg serialises an undefined query parameter as SQL NULL
PgParam(v) == IF v = Undefined THEN Null ELSE v

\* ---- handler modules -----------------------------------------------------
Modules == {"tasks.js", "tenders.js"}

\* the collection name the module compares the last path segment with
Collection(m) == IF m = "tasks.js" THEN "tasks" ELSE "tenders"

\* modules that create the pool inside the handler (let pool; if (!pool) ...)
LazyPool(m) == m = "tenders.js"

\* columns written by INSERT and UPDATE, in parameter order
Columns(coll) ==
  IF coll = "tasks"
    THEN <<"description", "assigned_to", "due_date", "status">>
    ELSE <<"tender_number", "description", "closing_date", "site_visits">>

ColumnSet(coll) == {Columns(coll)[i] : i \in 1..4}

\* ---- requests ------------------------------------------------------------
\* A path is its sequence of tokens: "/" or the text between two slashes.
\* The functions are served below /.netlify/functions/.
CollectionPath(coll) == <<"/", ".netlify", "/", "functions", "/", coll>>
ItemPath(coll, seg) == CollectionPath(coll) \o <<"/", seg>>
SlashPath(coll) == CollectionPath(coll) \o <<"/">>

\* path.split('/')
RECURSIVE SplitFrom(_, _, _, _)
SplitFrom(p, i, cur, acc) ==
  IF i > Len(p) THEN Append(acc, cur)
  ELSE IF p[i] = "/" THEN SplitFrom(p, i + 1, "", Append(acc, cur))
  ELSE SplitFrom(p, i + 1, p[i], acc)

Split(p) == SplitFrom(p, 1, "", <<>>)

\* (mutant) only the segment that follows the collection name is an id
ExtractIdAfterCollection(p, coll) ==
  LET pathParts == Split(p)
      n == Len(pathParts)
  IN IF n >= 2 /\ pathParts[n - 1] = coll THEN pathParts[n] ELSE Null

\* (mutant) the last segment is taken as the id whatever it is
ExtractIdLast(p, coll) == Split(p)[Len(Split(p))]

\* const id = pathParts[last] !== '<collection>' ? pathParts[last] : null
ExtractId(p, coll) ==
  LET pathParts == Split(p)
      last == pathParts[Len(pathParts)]
  IN IF last # coll THEN last ELSE Null

\* The text of a path segment as the integer the id column compares it with
\* (0: the text denotes no id of the table).
Numerals == <<"1", "2", "3", "4", "5", "6">>
IdOf(seg) ==
  IF \E i \in 1..Len(Numerals) : Numerals[i] = seg
    THEN CHOOSE i \in 1..Len(Numerals) : Numerals[i] = seg
    ELSE 0

\* Request bodies, by what JSON.parse makes of them:
\*   "bad"    JSON.parse throws
\*   "null"   JSON.parse returns null, reading a property of it throws
\*   "object" an object; obj[c] is the value read for property c
Obj(coll, a, b, c, d) ==
  [kind |-> "object",
   obj |-> [col \in ColumnSet(coll) |->
              IF col = Columns(coll)[1] THEN a
              ELSE IF col = Columns(coll)[2] THEN b
              ELSE IF col = Columns(coll)[3] THEN c ELSE d]]

NoObj(coll) == [col \in ColumnSet(coll) |-> Undefined]

BadBody(coll) == [kind |-> "bad", obj |-> NoObj(coll)]
NullBody(coll) == [kind |-> "null", obj |-> NoObj(coll)]
FullBody(coll) ==
  Obj(coll, "v1", "v1", "2025-03-01", IF coll = "tasks" THEN "SENT" ELSE "v1")
NoStatusBody(coll) == Obj(coll, "v2", "v1", "2025-03-01", Undefined)
SparseBody(coll) == Obj(coll, "v2", Undefined, Undefined, "")

Request(method, path, body) == [method |-> method, path |-> path, body |-> body]

\* bodies whose fourth field is none of PENDING, SENT, COMPLETED
OddBody(coll) == Obj(coll, "v3", "v1", "2025-03-01", "ARCHIVED")
LowerBody(coll) == Obj(coll, "v3", "v1", "2025-03-01", "pending")

\* The requests of a client that creates a record and of clients that
\* update and delete record 1.
EdgeRequests(coll) ==
  { Request("POST", CollectionPath(coll), OddBody(coll)),
    Request("PUT", ItemPath(coll, "1"), LowerBody(coll)),
    Request("DELETE", ItemPath(coll, "1"), NullBody(coll)) }

Requests(coll) ==
  LET P == CollectionPath(coll)
      P1 == ItemPath(coll, "1")
      P2 == ItemPath(coll, "2")
  IN { Request("OPTIONS", P, NullBody(coll)),
       Request("OPTIONS", P1, FullBody(coll)),
       Request("GET", P, NullBody(coll)),
       Request("POST", P, FullBody(coll)),
       Request("POST", P, NoStatusBody(coll)),
       Request("POST", P, SparseBody(coll)),
       Request("POST", P, BadBody(coll)),
       Request("PUT", P, BadBody(coll)),
       Request("PUT", SlashPath(coll), FullBody(coll)),
       Request("PUT", P1, NullBody(coll)),
       Request("PUT", P1, BadBody(coll)),
       Request("PUT", P2, SparseBody(coll)),
       Request("PUT", P2, FullBody(coll)),
       Request("DELETE", P, NullBody(coll)),
       Request("DELETE", SlashPath(coll), NullBody(coll)),
       Request("DELETE", P1, NullBody(coll)),
       Request("DELETE", P2, NullBody(coll)),
       Request("PATCH", P1, FullBody(coll)),
       Request("HEAD", P, NullBody(coll)) }

UnreadBody(coll) == [kind |-> "unread", obj |-> NoObj(coll)]

\* ---- responses -----------------------------------------------------------
CorsHeaders ==
  { <<"Access-Control-Allow-Origin", "*">>,
    <<"Access-Control-Allow-Headers", "Content-Type">>,
    <<"Access-Control-Allow-Methods", "GET, POST, PUT, DELETE, OPTIONS">>,
    <<"Content-Type", "application/json">> }

ConfigHeaders ==
  { <<"Access-Control-Allow-Origin", "*">>,
    <<"Content-Type", "application/json">> }

Payload(kind, text, rows) == [kind |-> kind, text |-> text, rows |-> rows]

Response(status, headers, payload) ==
  [statusCode |-> status, headers |-> headers, body |-> payload]

ErrorResponse(status, headers, msg) ==
  Response(status, headers, Payload("error", msg, <<>>))

\* if (httpMethod === 'OPTIONS') return { statusCode: 200, headers, body: '' }
PreflightResponse == Response(200, CorsHeaders, Payload("empty", "", <<>>))

ConfigErrorResponse ==
  ErrorResponse(500, ConfigHeaders, "Database configuration error")

ConnectionErrorResponse ==
  ErrorResponse(500, ConfigHeaders, "Database connection error")

InternalErrorResponse ==
  ErrorResponse(500, CorsHeaders, "Internal server error")

\* an exception on its way out of the try block: JSON.parse(body) or the
\* destructuring of its result throws, or the awaited pool.query rejects
Thrown == Response(0, {}, Payload("thrown", "", <<>>))

\* (mutant) no catch: the exception leaves exports.handler
CatchRethrow(res) == res

\* (mutant) a failure inside the try block is reported as a client error
CatchAsBadRequest(res) ==
  IF res = Thrown THEN ErrorResponse(400, CorsHeaders, "Invalid request body")
                  ELSE res

\* catch (error) { console.error(...); return { statusCode: 500, headers,
\*                 body: JSON.stringify({ error: 'Internal server error' }) } }
Catch(res) == IF res = Thrown THEN InternalErrorResponse ELSE res

\* (mutant) an unknown method is answered like an unknown record
MethodNotAllowedAsNotFound ==
  ErrorResponse(404, CorsHeaders, "Method not allowed")

MethodNotAllowedResponse ==
  ErrorResponse(405, CorsHeaders, "Method not allowed")

MissingIdResponse(method) ==
  ErrorResponse(400, CorsHeaders,
    IF method = "PUT" THEN "ID is required for update"
                      ELSE "ID is required for delete")

\* (mutant) a record that is gone is reported as a conflict
NotFoundAsConflict(coll) ==
  ErrorResponse(409, CorsHeaders,
    IF coll = "tasks" THEN "Task not found" ELSE "Tender not found")

\* (mutant) the 404 is built with the two headers of the set-up errors
NotFoundBare(coll) ==
  ErrorResponse(404, ConfigHeaders,
    IF coll = "tasks" THEN "Task not found" ELSE "Tender not found")

NotFoundResponse(coll) ==
  ErrorResponse(404, CorsHeaders,
    IF coll = "tasks" THEN "Task not found" ELSE "Tender not found")

\* (mutant) the deleted row is returned with the message
DeletedResponseWithRow(coll, rows) ==
  Response(200, CorsHeaders,
    Payload("message",
      IF coll = "tasks" THEN "Task deleted successfully"
                        ELSE "Tender deleted successfully",
      rows))

\* body: JSON.stringify({ message: '<Resource> deleted successfully' })
DeletedResponse(coll, rows) ==
  Response(200, CorsHeaders,
    Payload("message",
      IF coll = "tasks" THEN "Task deleted successfully"
                        ELSE "Tender deleted successfully",
      <<>>))

\* body: JSON.stringify(result.rows[0]) resp. JSON.stringify(getResult.rows)
RowResponse(status, row) == Response(status, CorsHeaders, Payload("row", "", <<row>>))
RowsResponse(rows) == Response(200, CorsHeaders, Payload("rows", "", rows))

\* ---- the synchronous part of the handler --------------------------------
NoStmt == <<>>
\* (mutant) the handler sends its statement twice
StmtTwice(op, params, id) ==
  <<[op |-> op, params |-> params, id |-> id],
    [op |-> op, params |-> params, id |-> id]>>

Stmt(op, params, id) == <<[op |-> op, params |-> params, id |-> id]>>

\* (mutant) no default: the status goes to the statement as it was read
InsertParamsNoDefault(coll, obj) == [col \in ColumnSet(coll) |-> PgParam(obj[col])]

\* (mutant) the default replaces the fourth parameter unconditionally
InsertParamsDefaulted(coll, obj) ==
  [col \in ColumnSet(coll) |->
     IF col = Columns(coll)[4] THEN "PENDING" ELSE PgParam(obj[col])]

\* [description, assigned_to, due_date, status || 'PENDING'] resp.
\* [tender_number, description, closing_date, site_visits]
InsertParams(coll, obj) ==
  [col \in ColumnSet(coll) |->
     IF coll = "tasks" /\ col = "status" /\ Falsy(obj[col])
       THEN "PENDING" ELSE PgParam(obj[col])]

\* (mutant) a task status outside the three known ones is replaced
UpdateParamsChecked(coll, obj) ==
  [col \in ColumnSet(coll) |->
     IF coll = "tasks" /\ col = "status"
          /\ obj[col] \notin {"PENDING", "SENT", "COMPLETED"}
       THEN "PENDING" ELSE PgParam(obj[col])]

\* [updateData.<col1>, updateData.<col2>, updateData.<col3>, updateData.<col4>, id]
UpdateParams(coll, obj) == [col \in ColumnSet(coll) |-> PgParam(obj[col])]

\* (mutant) the set-up runs on every request, whether or not a pool exists
PoolInitEveryTime(p, url, throws) ==
  IF ~url THEN [pool |-> p, made |-> 0, early |-> <<ConfigErrorResponse>>]
  ELSE IF throws THEN [pool |-> p, made |-> 0, early |-> <<ConnectionErrorResponse>>]
  ELSE [pool |-> "created", made |-> 1, early |-> <<>>]

\* if (!pool) { if (!process.env.DATABASE_URL) return ...; try { pool = new Pool(...) } catch ... }
PoolInit(p, url, throws) ==
  IF p # "null" THEN [pool |-> p, made |-> 0, early |-> <<>>]
  ELSE IF ~url THEN [pool |-> p, made |-> 0, early |-> <<ConfigErrorResponse>>]
  ELSE IF throws THEN [pool |-> p, made |-> 0, early |-> <<ConnectionErrorResponse>>]
  ELSE [pool |-> "created", made |-> 1, early |-> <<>>]

Outcome(reply, stmt, id, body) ==
  [reply |-> reply, stmt |-> stmt, id |-> id, body |-> body]

\* try { ...; switch (httpMethod) { ... } } catch (error) { return 500 }
\* up to the await on pool.query
Dispatch(coll, method, path, body) ==
  LET id == ExtractId(path, coll)
      unread == UnreadBody(coll)
  IN CASE method = "GET" ->
            Outcome(<<>>, Stmt("SELECT", NoObj(coll), Null), id, unread)
       [] method = "POST" ->
            IF body.kind # "object"
              THEN Outcome(<<Catch(Thrown)>>, NoStmt, id, body)
              ELSE Outcome(<<>>, Stmt("INSERT", InsertParams(coll, body.obj), Null), id, body)
       [] method = "PUT" ->
            IF Falsy(id)
              THEN Outcome(<<MissingIdResponse(method)>>, NoStmt, id, unread)
            ELSE IF body.kind # "object"
              THEN Outcome(<<Catch(Thrown)>>, NoStmt, id, body)
              ELSE Outcome(<<>>, Stmt("UPDATE", UpdateParams(coll, body.obj), id), id, body)
       [] method = "DELETE" ->
            IF Falsy(id)
              THEN Outcome(<<MissingIdResponse(method)>>, NoStmt, id, unread)
              ELSE Outcome(<<>>, Stmt("DELETE", NoObj(coll), id), id, unread)
       [] OTHER ->
            Outcome(<<MethodNotAllowedResponse>>, NoStmt, id, unread)

\* exports.handler from its entry to its first return or await; the lazy
\* modules initialise the pool before they look at the method.
HandlerSync(m, p, url, throws, method, path, body) ==
  LET coll == Collection(m)
      init == IF LazyPool(m) THEN PoolInit(p, url, throws)
                             ELSE [pool |-> p, made |-> 0, early |-> <<>>]
      out == IF init.early # <<>>
               THEN Outcome(init.early, NoStmt, Undefined, UnreadBody(coll))
             ELSE IF method = "OPTIONS"
               THEN Outcome(<<PreflightResponse>>, NoStmt, Undefined, UnreadBody(coll))
               ELSE Dispatch(coll, method, path, body)
  IN [pool |-> init.pool, made |-> init.made, out |-> out]

\* ---- the statements -----------------------------------------------------
Ids(rows) == {r.id : r \in rows}

\* INSERT INTO <table> (...) VALUES ($1, $2, $3, $4) RETURNING *
InsertRow(id, params, t) ==
  [id |-> id, data |-> params, created_at |-> t, updated_at |-> t]

\* (mutant) SET col = COALESCE($n, col): a missing field keeps its value
UpdateRowKeepMissing(row, params, t) ==
  [id |-> row.id,
   data |-> [c \in DOMAIN params |-> IF params[c] = Null THEN row.data[c] ELSE params[c]],
   created_at |-> row.created_at, updated_at |-> t]

\* (mutant) the update stamps created_at as well
UpdateRowStampBoth(row, params, t) ==
  [id |-> row.id, data |-> params, created_at |-> t, updated_at |-> t]

\* (mutant) a row that was updated before keeps what it has
UpdateRowFirstWins(row, params, t) ==
  IF row.updated_at > row.created_at THEN row
  ELSE [id |-> row.id, data |-> params, created_at |-> row.created_at,
        updated_at |-> t]

\* UPDATE <table> SET <col1> = $1, ..., updated_at = CURRENT_TIMESTAMP WHERE id = $5
UpdateRow(row, params, t) ==
  [id |-> row.id, data |-> params, created_at |-> row.created_at, updated_at |-> t]

\* WHERE id = $n
Matching(rows, idText) == {r \in rows : r.id = IdOf(idText)}

\* (mutant) ORDER BY created_at ASC
Oldest(rows) == {r \in rows : \A q \in rows : r.created_at <= q.created_at}

RECURSIVE SelectAscending(_)
SelectAscending(rows) ==
  IF rows = {} THEN {<<>>}
  ELSE UNION { { <<r>> \o rest : rest \in SelectAscending(rows \ {r}) } : r \in Oldest(rows) }

\* SELECT * FROM <table> ORDER BY created_at DESC: every order of the rows
\* with created_at descending (rows of equal created_at in any order)
Newest(rows) == {r \in rows : \A q \in rows : q.created_at <= r.created_at}

RECURSIVE SelectOrdered(_)
SelectOrdered(rows) ==
  IF rows = {} THEN {<<>>}
  ELSE UNION { { <<r>> \o rest : rest \in SelectOrdered(rows \ {r}) } : r \in Newest(rows) }

\* (mutants) the row count of the result is not looked at
PutResponseUnchecked(coll, rows) ==
  Response(200, CorsHeaders, Payload("row", "", rows))

DeleteResponseUnchecked(coll, rows) == DeletedResponse(coll, rows)

\* the part of the handler after the await: the shape of the response
PutResponse(coll, rows) ==
  IF Len(rows) = 0 THEN NotFoundResponse(coll) ELSE RowResponse(200, rows[1])

DeleteResponse(coll, rows) ==
  IF Len(rows) = 0 THEN NotFoundResponse(coll) ELSE DeletedResponse(coll, rows)

\* ---- state --------------------------------------------------------------
VARIABLES
  module,      \* the handler module this process runs
  dbUrl,       \* process.env.DATABASE_URL is set
  pool,        \* the module-level pool: "null" or "created"
  poolMade,    \* number of pools new Pool(...) has made
  table,       \* the rows of the module's table
  nextId,      \* the next value of the id sequence
  now,         \* the database clock (CURRENT_TIMESTAMP)
  inflight,    \* invocations suspended on pool.query
  served,      \* number of invocations started
  resp,        \* the latest response, with the request it answers
  created,     \* ids of the rows inserted so far
  updated,     \* ids returned by a PUT 200
  deleted,     \* ids removed by a DELETE 200
  writes,      \* the PUTs that changed a row, in the order of execution
  stage,       \* the client: "idle", "fetched", "shown" or "sent"
  fetched,     \* the client: the row as the API returned it
  shown,       \* the client: the record the components hold for it
  putReq,      \* the client: the update request made from that record
  probe,       \* a path under test, with what the handler makes of it
  ui,          \* the reactive properties of a list component
  calls,       \* the requests of the component that are under way
  hist         \* what has happened to the component so far

vars == <<module, dbUrl, pool, poolMade, table, nextId, now, inflight, served,
          resp, created, updated, deleted, writes, stage, fetched, shown, putReq,
          probe, ui, calls, hist>>

clientVars == <<stage, fetched, shown, putReq>>

\* no page is open
ClientIdle ==
  /\ stage = "idle"
  /\ fetched = <<>>
  /\ shown = <<>>
  /\ putReq = <<>>

pathVars == <<probe>>

\* no path is under test
PathIdle == probe = <<>>

uiVars == <<ui, calls, hist>>

\* no list component is on the page
UiIdle ==
  /\ ui = <<>>
  /\ calls = {}
  /\ hist = <<>>

sideVars == <<clientVars, pathVars, uiVars>>

\* A response with the request it answers: sent is the body of the request,
\* body what the handler parsed of it, stmt the fate of its statement.
Answer(rid, req, out, stmt, res) ==
  [rid |-> rid, method |-> req.method, path |-> req.path, sent |-> req.body,
   id |-> out.id, body |-> out.body, stmt |-> stmt, res |-> res]

NoResponse ==
  [rid |-> 0, method |-> "", path |-> <<>>,
   sent |-> [kind |-> "null", obj |-> <<>>], id |-> Undefined,
   body |-> [kind |-> "unread", obj |-> <<>>], stmt |-> "none",
   res |-> Response(0, {}, Payload("none", "", <<>>))]

\* A PUT that changed row id, with the number of invocations started by then.
Write(inv, id, seen) ==
  [rid |-> inv.rid, id |-> id, body |-> inv.req.body.obj, seen |-> seen]

\* The table after n earlier creates, one per tick of the clock.
SeedRows(coll, n) ==
  {InsertRow(i, InsertParams(coll, FullBody(coll).obj), i - 1) : i \in 1..n}

Init ==
  /\ module \in Modules
  /\ dbUrl \in BOOLEAN
  /\ pool = IF LazyPool(module) THEN "null" ELSE "created"
  /\ poolMade = IF LazyPool(module) THEN 0 ELSE 1
  /\ \E n \in 0..MaxSeed :
       /\ table = SeedRows(Collection(module), n)
       /\ nextId = n + 1
       /\ now = IF n = 0 THEN 0 ELSE n - 1
       /\ created = 1..n
  /\ inflight = {}
  /\ served = 0
  /\ resp = NoResponse
  /\ updated = {}
  /\ deleted = {}
  /\ writes = <<>>
  /\ ClientIdle
  /\ PathIdle
  /\ UiIdle

\* A request arrives: the handler runs up to its first return or await.
Invoke(req, throws) ==
  /\ served < MaxRequests
  /\ LET h == HandlerSync(module, pool, dbUrl, throws, req.method, req.path, req.body)
         rid == served + 1
     IN /\ served' = rid
        /\ pool' = h.pool
        /\ poolMade' = poolMade + h.made
        /\ IF h.out.reply # <<>>
             THEN /\ resp' = Answer(rid, req, h.out, "none", h.out.reply[1])
                  /\ UNCHANGED inflight
             ELSE /\ Cardinality(inflight) < MaxInFlight
                  /\ inflight' = inflight \cup
                       {[rid |-> rid, req |-> req, out |-> h.out]}
                  /\ UNCHANGED resp
  /\ UNCHANGED <<module, dbUrl, table, nextId, now, created, updated, deleted,
                 writes>>
  /\ UNCHANGED sideVars

\* The database executes the statement of a suspended invocation at time t
\* (or the statement fails) and the handler returns.
Complete(inv, fault, t, rows) ==
  /\ inv \in inflight
  /\ inflight' = inflight \ {inv}
  /\ now' = t
  /\ LET coll == Collection(module)
         stmt == inv.out.stmt[1]
         hit == Matching(table, stmt.id)
         fresh == InsertRow(nextId, stmt.params, t)
         changed == {UpdateRow(r, stmt.params, t) : r \in hit}
         AsSeq(S) == IF S = {} THEN <<>> ELSE <<CHOOSE r \in S : TRUE>>
     IN IF fault
          THEN /\ resp' = Answer(inv.rid, inv.req, inv.out, "fault",
                                 Catch(Thrown))
               /\ UNCHANGED <<table, nextId, created, updated, deleted, writes>>
        ELSE CASE stmt.op = "SELECT" ->
               /\ rows \in SelectOrdered(table)
               /\ resp' = Answer(inv.rid, inv.req, inv.out, "ok",
                                 RowsResponse(rows))
               /\ UNCHANGED <<table, nextId, created, updated, deleted, writes>>
          [] stmt.op = "INSERT" ->
               /\ rows = <<>>
               /\ table' = table \cup {fresh}
               /\ nextId' = nextId + 1
               /\ created' = created \cup {fresh.id}
               /\ resp' = Answer(inv.rid, inv.req, inv.out, "ok",
                                 RowResponse(201, fresh))
               /\ UNCHANGED <<updated, deleted, writes>>
          [] stmt.op = "UPDATE" ->
               /\ rows = <<>>
               /\ table' = (table \ hit) \cup changed
               /\ updated' = updated \cup Ids(changed)
               /\ writes' = IF hit = {} THEN writes
                             ELSE Append(writes, Write(inv, IdOf(stmt.id), served))
               /\ resp' = Answer(inv.rid, inv.req, inv.out, "ok",
                                 PutResponse(coll, AsSeq(changed)))
               /\ UNCHANGED <<nextId, created, deleted>>
          [] stmt.op = "DELETE" ->
               /\ rows = <<>>
               /\ table' = table \ hit
               /\ deleted' = deleted \cup Ids(hit)
               /\ resp' = Answer(inv.rid, inv.req, inv.out, "ok",
                                 DeleteResponse(coll, AsSeq(hit)))
               /\ UNCHANGED <<nextId, created, updated, writes>>
  /\ UNCHANGED <<module, dbUrl, pool, poolMade, served>>
  /\ UNCHANGED sideVars

\* new Pool(...) can throw only where it runs
ThrowChoices ==
  IF LazyPool(module) /\ pool = "null" /\ dbUrl THEN BOOLEAN ELSE {FALSE}

ResultChoices(inv) ==
  IF inv.out.stmt[1].op = "SELECT" THEN SelectOrdered(table) ELSE {<<>>}

Next ==
  \/ \E req \in Requests(Collection(module)), throws \in ThrowChoices :
       Invoke(req, throws)
  \/ \E inv \in inflight, fault \in BOOLEAN, t \in {now, now + 1} :
       \E rows \in ResultChoices(inv) : Complete(inv, fault, t, rows)

Spec == Init /\ [][Next]_vars

\* the same process, serving the requests of EdgeRequests
EdgeNext ==
  \/ \E req \in EdgeRequests(Collection(module)), throws \in ThrowChoices :
       Invoke(req, throws)
  \/ \E inv \in inflight, fault \in BOOLEAN, t \in {now, now + 1} :
       \E rows \in ResultChoices(inv) : Complete(inv, fault, t, rows)

EdgeSpec == Init /\ [][EdgeNext]_vars

\* ---- the client module src/services/api.js ------------------------------
Coll == Collection(module)

RowFields(coll) == {"id", "created_at", "updated_at"} \cup ColumnSet(coll)

\* response.json() of a row the handlers returned with RETURNING * / SELECT *
RowJson(coll, row) ==
  [f \in RowFields(coll) |->
     IF f = "id" THEN row.id
     ELSE IF f = "created_at" THEN row.created_at
     ELSE IF f = "updated_at" THEN row.updated_at
     ELSE row.data[f]]

\* o.k: a property the object lacks reads as undefined
Get(o, k) == IF k \in DOMAIN o THEN o[k] ELSE Undefined

\* JSON.stringify(o): a property whose value is undefined is left out
JsonStringify(o) == [k \in {j \in DOMAIN o : o[j] # Undefined} |-> o[k]]

\* (mutant) the transform forgets createdAt as well
transformTenderNoDates(dbTender) ==
  [id |-> Get(dbTender, "id"),
   tenderNumber |-> Get(dbTender, "tender_number"),
   description |-> Get(dbTender, "description"),
   closingDate |-> Get(dbTender, "closing_date"),
   siteVisits |-> Get(dbTender, "site_visits")]

transformTender(dbTender) ==
  [id |-> Get(dbTender, "id"),
   tenderNumber |-> Get(dbTender, "tender_number"),
   description |-> Get(dbTender, "description"),
   closingDate |-> Get(dbTender, "closing_date"),
   siteVisits |-> Get(dbTender, "site_visits"),
   createdAt |-> Get(dbTender, "created_at")]

transformTask(dbTask) ==
  [id |-> Get(dbTask, "id"),
   description |-> Get(dbTask, "description"),
   assignedTo |-> Get(dbTask, "assigned_to"),
   dueDate |-> Get(dbTask, "due_date"),
   status |-> Get(dbTask, "status"),
   createdAt |-> Get(dbTask, "created_at")]

\* tenderAPI.update(id, tender): PUT /tenders/${id} with the JSON text of
\* the four storage fields
TenderUpdate(id, tender) ==
  Request("PUT", ItemPath("tenders", Numerals[id]),
    JsonStringify([tender_number |-> Get(tender, "tenderNumber"),
                   description |-> Get(tender, "description"),
                   closing_date |-> Get(tender, "closingDate"),
                   site_visits |-> Get(tender, "siteVisits")]))

\* (mutant) the due date is read under its storage name
TaskUpdateSnakeDate(id, task) ==
  Request("PUT", ItemPath("tasks", Numerals[id]),
    JsonStringify([description |-> Get(task, "description"),
                   assigned_to |-> Get(task, "assignedTo"),
                   due_date |-> Get(task, "due_date"),
                   status |-> Get(task, "status")]))

\* taskAPI.update(id, task)
TaskUpdate(id, task) ==
  Request("PUT", ItemPath("tasks", Numerals[id]),
    JsonStringify([description |-> Get(task, "description"),
                   assigned_to |-> Get(task, "assignedTo"),
                   due_date |-> Get(task, "dueDate"),
                   status |-> Get(task, "status")]))

\* The rows a table can hold: any id, NULL or text in every column, and
\* updated_at not before created_at.
FieldValues == {Null, "v1", "v2"}

StorageRows(coll) ==
  { r \in [id : 1..(MaxSeed + 1), data : [ColumnSet(coll) -> FieldValues],
           created_at : 0..MaxSeed, updated_at : 0..(MaxSeed + 1)] :
      r.created_at <= r.updated_at }

ServerIdle ==
  /\ module \in Modules
  /\ dbUrl = TRUE
  /\ pool = "created"
  /\ poolMade = 1
  /\ table = {}
  /\ nextId = 1
  /\ now = 0
  /\ inflight = {}
  /\ served = 0
  /\ resp = NoResponse
  /\ created = {}
  /\ updated = {}
  /\ deleted = {}
  /\ writes = <<>>

serverVars == <<module, dbUrl, pool, poolMade, table, nextId, now, inflight,
                served, resp, created, updated, deleted, writes>>

\* A page has fetched one row of its resource.
ClientInit ==
  /\ ServerIdle
  /\ stage = "fetched"
  /\ \E row \in StorageRows(Coll) : fetched = RowJson(Coll, row)
  /\ shown = <<>>
  /\ putReq = <<>>
  /\ PathIdle
  /\ UiIdle

\* this.tasks = tasks.map(transformTask) / this.tenders = tenders.map(transformTender)
TransformRecord ==
  /\ stage = "fetched"
  /\ shown' = IF Coll = "tasks" THEN transformTask(fetched)
                                ELSE transformTender(fetched)
  /\ stage' = "shown"
  /\ UNCHANGED <<fetched, putReq, serverVars, pathVars, uiVars>>

\* the record goes back unedited: taskAPI.update(id, task) / tenderAPI.update(id, tender)
SendUpdate ==
  /\ stage = "shown"
  /\ putReq' = IF Coll = "tasks" THEN TaskUpdate(shown.id, shown)
                                 ELSE TenderUpdate(shown.id, shown)
  /\ stage' = "sent"
  /\ UNCHANGED <<fetched, shown, serverVars, pathVars, uiVars>>

ClientNext == TransformRecord \/ SendUpdate

ClientSpec == ClientInit /\ [][ClientNext]_vars

\* ---- the list components TaskList and TenderList -------------------------
\* tenderAPI.create(tender): POST /tenders with the four storage fields
TenderCreate(tender) ==
  Request("POST", CollectionPath("tenders"),
    JsonStringify([tender_number |-> Get(tender, "tenderNumber"),
                   description |-> Get(tender, "description"),
                   closing_date |-> Get(tender, "closingDate"),
                   site_visits |-> Get(tender, "siteVisits")]))

\* taskAPI.create(task)
TaskCreate(task) ==
  Request("POST", CollectionPath("tasks"),
    JsonStringify([description |-> Get(task, "description"),
                   assigned_to |-> Get(task, "assignedTo"),
                   due_date |-> Get(task, "dueDate"),
                   status |-> Get(task, "status")]))

\* getAll() and delete(id) send no body
GetAll(coll) == Request("GET", CollectionPath(coll), <<>>)
Delete(coll, id) == Request("DELETE", ItemPath(coll, Numerals[id]), <<>>)

Create(coll, rec) == IF coll = "tasks" THEN TaskCreate(rec) ELSE TenderCreate(rec)
Update(coll, id, rec) ==
  IF coll = "tasks" THEN TaskUpdate(id, rec) ELSE TenderUpdate(id, rec)
Transform(coll, dbRow) ==
  IF coll = "tasks" THEN transformTask(dbRow) ELSE transformTender(dbRow)

\* JSON.parse(body) of a JSON text the client wrote
ParseBody(coll, json) ==
  [kind |-> "object", obj |-> [c \in ColumnSet(coll) |-> Get(json, c)]]

\* response.ok
Ok(res) == res.statusCode >= 200 /\ res.statusCode <= 299

\* editingId: null is written 0 (no record has id 0, and both are falsy)
NoId == 0

\* the form as constructor and _resetForm leave it
EmptyForm(coll) ==
  IF coll = "tasks"
    THEN [description |-> "", assignedTo |-> "", dueDate |-> "", status |-> "PENDING"]
    ELSE [tenderNumber |-> "", description |-> "", closingDate |-> "", siteVisits |-> ""]

\* constructor()
Constructed(coll) ==
  [list |-> <<>>, showForm |-> FALSE, formData |-> EmptyForm(coll),
   loading |-> TRUE, error |-> Null, editingId |-> NoId]

\* _resetForm()
ResetForm(u, coll) == [u EXCEPT !.formData = EmptyForm(coll)]

\* _toggleForm()
ToggleFormOf(u, coll) ==
  IF u.showForm THEN ResetForm([u EXCEPT !.showForm = FALSE], coll)
                ELSE [u EXCEPT !.showForm = TRUE]

\* _cancelForm()
CancelFormOf(u, coll) ==
  [ResetForm([u EXCEPT !.showForm = FALSE], coll) EXCEPT !.editingId = NoId]

\* _updateFormData(field, value)
UpdateFormDataOf(u, field, value) ==
  [u EXCEPT !.formData = [u.formData EXCEPT ![field] = value]]

\* _editTask(task) / _editTender(tender)
EditOf(u, rec, coll) ==
  [u EXCEPT !.editingId = rec.id,
            !.showForm = TRUE,
            !.formData =
              IF coll = "tasks"
                THEN [description |-> rec.description, assignedTo |-> rec.assignedTo,
                      dueDate |-> rec.dueDate, status |-> rec.status]
                ELSE [tenderNumber |-> rec.tenderNumber,
                      description |-> rec.description,
                      closingDate |-> rec.closingDate,
                      siteVisits |-> IF Falsy(rec.siteVisits) THEN ""
                                     ELSE rec.siteVisits]]

\* this.tasks.map(t => t.id === id ? rec : t)
ReplaceById(list, id, rec) ==
  [i \in 1..Len(list) |-> IF list[i].id = id THEN rec ELSE list[i]]

\* this.tasks.filter(t => t.id !== id)
RemoveById(list, id) == SelectSeq(list, LAMBDA t : t.id # id)

\* _loadTasks() / _loadTenders(): up to the await, and from it to the end
LoadStarted(u) == [u EXCEPT !.loading = TRUE, !.error = Null]

LoadEnded(u, coll, ok, rows) ==
  [(IF ok THEN [u EXCEPT !.list = [i \in 1..Len(rows) |->
                                     Transform(coll, RowJson(coll, rows[i]))]]
          ELSE [u EXCEPT !.error = "Failed to load"])
     EXCEPT !.loading = FALSE]

\* (mutant) a failed save closes the form like a successful one
SubmitEndedClosing(u, coll, op, ok, rows) ==
  IF ok
    THEN CancelFormOf(
           [u EXCEPT !.list =
              IF op = "update"
                THEN ReplaceById(u.list, u.editingId, Transform(coll, RowJson(coll, rows[1])))
                ELSE <<Transform(coll, RowJson(coll, rows[1]))>> \o u.list], coll)
    ELSE CancelFormOf(
           [u EXCEPT !.error = IF u.editingId # NoId THEN "Failed to update"
                                                     ELSE "Failed to create"], coll)

\* _handleSubmit(e) from the await to the end; op is the branch taken
\* before the await
SubmitEnded(u, coll, op, ok, rows) ==
  IF ok
    THEN CancelFormOf(
           [u EXCEPT !.list =
              IF op = "update"
                THEN ReplaceById(u.list, u.editingId, Transform(coll, RowJson(coll, rows[1])))
                ELSE <<Transform(coll, RowJson(coll, rows[1]))>> \o u.list], coll)
    ELSE [u EXCEPT !.error = IF u.editingId # NoId THEN "Failed to update"
                                                   ELSE "Failed to create"]

\* _updateTaskStatus(id, newStatus) from the await to the end
StatusEnded(u, coll, id, ok, rows) ==
  IF ok THEN [u EXCEPT !.list = ReplaceById(u.list, id, Transform(coll, RowJson(coll, rows[1])))]
        ELSE [u EXCEPT !.error = "Failed to update status"]

\* _deleteTask(id) / _deleteTender(id) from the await to the end
DeleteEnded(u, id, ok) ==
  IF ok THEN [u EXCEPT !.list = RemoveById(u.list, id)]
        ELSE [u EXCEPT !.error = "Failed to delete"]

\* A request of the component: what it is for, the record it names, and the
\* response once the server has made it.
Call(cid, op, id, req) ==
  [cid |-> cid, op |-> op, id |-> id, req |-> req, phase |-> "sent",
   res |-> Response(0, {}, Payload("none", "", <<>>))]

UiInit ==
  /\ module \in Modules
  /\ dbUrl = TRUE
  /\ pool = "created"
  /\ poolMade = 1
  /\ \E n \in 0..MaxSeed :
       /\ table = SeedRows(Collection(module), n)
       /\ nextId = n + 1
       /\ now = IF n = 0 THEN 0 ELSE n - 1
       /\ created = 1..n
  /\ inflight = {}
  /\ served = 0
  /\ resp = NoResponse
  /\ updated = {}
  /\ deleted = {}
  /\ writes = <<>>
  /\ ClientIdle
  /\ PathIdle
  /\ ui = Constructed(Collection(module))
  /\ calls = {}
  /\ hist = [loaded |-> FALSE, failed |-> FALSE]

\* the component calls the API: fetch(...) up to the await
Issue(op, id, req) ==
  /\ served < MaxCalls
  /\ served' = served + 1
  /\ calls' = calls \cup {Call(served + 1, op, id, req)}

uiFrame == <<module, dbUrl, pool, poolMade, table, nextId, now, inflight, resp,
             created, updated, deleted, writes, clientVars, pathVars>>

\* connectedCallback(), onAfterEnter() and the location observer
Load ==
  /\ Issue("load", NoId, GetAll(Coll))
  /\ ui' = LoadStarted(ui)
  /\ UNCHANGED <<hist, uiFrame>>

\* the round button
ToggleForm ==
  /\ ui' = ToggleFormOf(ui, Coll)
  /\ UNCHANGED <<calls, hist, served, uiFrame>>

\* the Cancel button of the form
CancelForm ==
  /\ ui.showForm
  /\ ui' = CancelFormOf(ui, Coll)
  /\ UNCHANGED <<calls, hist, served, uiFrame>>

\* the inputs marked required: the browser submits the form only when none
\* of them is empty
RequiredFields(coll) ==
  IF coll = "tasks" THEN {"description", "assignedTo", "dueDate"}
                    ELSE {"tenderNumber", "description", "closingDate"}

\* what the user types into a field
Typed(field) == IF field \in {"dueDate", "closingDate"} THEN "2025-03-02" ELSE "v3"

\* typing into a field of the form
UpdateFormData(field) ==
  /\ ui.showForm
  /\ ui' = UpdateFormDataOf(ui, field, Typed(field))
  /\ UNCHANGED <<calls, hist, served, uiFrame>>

\* the Edit button of card i (cards are drawn when loading is false)
Edit(i) ==
  /\ ~ui.loading
  /\ ui' = EditOf(ui, ui.list[i], Coll)
  /\ UNCHANGED <<calls, hist, served, uiFrame>>

\* the form is submitted: _handleSubmit(e) up to the await
Submit ==
  /\ ui.showForm
  /\ \A f \in RequiredFields(Coll) : ui.formData[f] # ""
  /\ IF ui.editingId # NoId
       THEN Issue("update", ui.editingId, Update(Coll, ui.editingId, ui.formData))
       ELSE Issue("create", NoId, Create(Coll, ui.formData))
  /\ ui' = [ui EXCEPT !.error = Null]
  /\ UNCHANGED <<hist, uiFrame>>

\* the Delete button of card i, confirmed
DeleteItem(i) ==
  /\ ~ui.loading
  /\ Issue("delete", ui.list[i].id, Delete(Coll, ui.list[i].id))
  /\ ui' = [ui EXCEPT !.error = Null]
  /\ UNCHANGED <<hist, uiFrame>>

\* the status select of task card i: _updateTaskStatus(id, newStatus) up to
\* the await
ChangeStatus(i, newStatus) ==
  /\ Coll = "tasks"
  /\ ~ui.loading
  /\ Issue("status", ui.list[i].id,
           Update(Coll, ui.list[i].id, [ui.list[i] EXCEPT !.status = newStatus]))
  /\ ui' = [ui EXCEPT !.error = Null]
  /\ UNCHANGED <<hist, uiFrame>>

\* The handler serves the request of call c: its statement executes at the
\* next tick of the clock, or fails.
Serve(c, fault, rows) ==
  /\ c \in calls
  /\ c.phase = "sent"
  /\ LET coll == Coll
         body == IF c.req.method \in {"POST", "PUT"} THEN ParseBody(coll, c.req.body)
                                                     ELSE NullBody(coll)
         h == HandlerSync(module, pool, dbUrl, FALSE, c.req.method, c.req.path, body)
         stmt == h.out.stmt[1]
         hit == Matching(table, stmt.id)
         fresh == InsertRow(nextId, stmt.params, now + 1)
         changed == {UpdateRow(r, stmt.params, now + 1) : r \in hit}
         AsSeq(S) == IF S = {} THEN <<>> ELSE <<CHOOSE r \in S : TRUE>>
         Answered(res) == calls' = (calls \ {c}) \cup
                            {[c EXCEPT !.phase = "answered", !.res = res]}
     IN IF h.out.reply # <<>>
          THEN /\ Answered(h.out.reply[1])
               /\ UNCHANGED <<table, nextId, now>>
        ELSE IF fault
          THEN /\ Answered(Catch(Thrown))
               /\ UNCHANGED <<table, nextId, now>>
        ELSE /\ now' = now + 1
             /\ CASE stmt.op = "SELECT" ->
                    /\ rows \in SelectOrdered(table)
                    /\ Answered(RowsResponse(rows))
                    /\ UNCHANGED <<table, nextId>>
               [] stmt.op = "INSERT" ->
                    /\ table' = table \cup {fresh}
                    /\ nextId' = nextId + 1
                    /\ Answered(RowResponse(201, fresh))
               [] stmt.op = "UPDATE" ->
                    /\ table' = (table \ hit) \cup changed
                    /\ Answered(PutResponse(coll, AsSeq(changed)))
                    /\ UNCHANGED nextId
               [] stmt.op = "DELETE" ->
                    /\ table' = table \ hit
                    /\ Answered(DeleteResponse(coll, AsSeq(hit)))
                    /\ UNCHANGED nextId
  /\ UNCHANGED <<ui, hist, served, module, dbUrl, pool, poolMade, inflight, resp,
                 created, updated, deleted, writes, clientVars, pathVars>>

\* The response of call c reaches the component: fetchAPI returns or throws
\* and the rest of the calling method runs.
Deliver(c) ==
  /\ c \in calls
  /\ c.phase = "answered"
  /\ calls' = calls \ {c}
  /\ LET ok == Ok(c.res)
         rows == c.res.body.rows
     IN /\ ui' = CASE c.op = "load" -> LoadEnded(ui, Coll, ok, rows)
                   [] c.op \in {"create", "update"} -> SubmitEnded(ui, Coll, c.op, ok, rows)
                   [] c.op = "status" -> StatusEnded(ui, Coll, c.id, ok, rows)
                   [] c.op = "delete" -> DeleteEnded(ui, c.id, ok)
        /\ hist' = [loaded |-> hist.loaded \/ (c.op = "load" /\ ok),
                    failed |-> hist.failed \/ ~ok]
  /\ UNCHANGED <<served, uiFrame>>

UiNext ==
  \/ Load
  \/ ToggleForm
  \/ CancelForm
  \/ \E f \in RequiredFields(Coll) : UpdateFormData(f)
  \/ \E i \in 1..Len(ui.list) : Edit(i)
  \/ Submit
  \/ \E i \in 1..Len(ui.list) : DeleteItem(i)
  \/ \E i \in 1..Len(ui.list) : ChangeStatus(i, "COMPLETED")
  \/ \E c \in calls, fault \in BOOLEAN :
       \E rows \in (IF c.req.method = "GET" THEN SelectOrdered(table) ELSE {<<>>}) :
         Serve(c, fault, rows)
  \/ \E c \in calls : Deliver(c)

UiSpec == UiInit /\ [][UiNext]_vars

\* ---- the tender list with site visits (part_002, second TenderList) ------
\* A site-visit string is a list of entries joined by "; ". An entry is
\* empty, a text, or a text behind the completion marker; the marker
\* (U+2713 in the source) is written "*" here.
Marker == "*"
VisitNames == {"a"}
Entries == {""} \cup VisitNames \cup {Marker \o t : t \in VisitNames}
VisitLists == UNION {[1..n -> Entries] : n \in 1..MaxVisits}

\* visits.join('; ')
RECURSIVE Join(_)
Join(visits) ==
  IF Len(visits) = 1 THEN visits[1]
  ELSE visits[1] \o "; " \o Join(Tail(visits))

VisitStrings == {Join(q) : q \in VisitLists}

\* siteVisits.split(';').map(v => v.trim()), by table
SplitVisits(text) == CHOOSE q \in VisitLists : Join(q) = text

\* ... .filter(visit => visit !== '')
NonEmpty(visits) == SelectSeq(visits, LAMBDA v : v # "")

\* visit.startsWith(marker) and visit.substring(1).trim()
StartsWithMarker(visit) == \E t \in VisitNames : visit = Marker \o t
WithoutMarker(visit) == CHOOSE t \in VisitNames : visit = Marker \o t

\* visits[index] = value: an index behind the end lengthens the array, and
\* join() writes the holes as empty entries
SetAt(visits, k, value) ==
  [j \in 1..(IF k > Len(visits) THEN k ELSE Len(visits)) |->
     IF j = k THEN value ELSE IF j <= Len(visits) THEN visits[j] ELSE ""]

\* format(new Date(closingDate), 'yyyy-MM-dd'): a date-only text is read as
\* midnight UTC and written in the time zone of the browser, which gives the
\* same day or, west of Greenwich, the day before
DayBefore(d) ==
  CASE d = "2025-03-01" -> "2025-02-28"
    [] d = "2025-02-28" -> "2025-02-27"
    [] d = "2025-02-27" -> "2025-02-26"
    [] OTHER -> d
FormatDate(d) == IF Falsy(d) THEN {""} ELSE {d, DayBefore(d)}

\* the form of this component has no tender number
VisitEmptyForm == [description |-> "", closingDate |-> "", siteVisits |-> ""]

VisitConstructed ==
  [list |-> <<>>, showForm |-> FALSE, formData |-> VisitEmptyForm,
   loading |-> TRUE, error |-> Null, editingId |-> NoId, siteVisitInputs |-> <<"">>]

\* _resetForm() and _cancelForm()
VisitResetForm(u) == [u EXCEPT !.formData = VisitEmptyForm, !.siteVisitInputs = <<"">>]
VisitCancelFormOf(u) ==
  [VisitResetForm([u EXCEPT !.showForm = FALSE]) EXCEPT !.editingId = NoId]

\* _editTender(tender), the date as the browser formats it
VisitEditOf(u, tender, date) ==
  [u EXCEPT !.editingId = tender.id,
            !.formData = [description |-> tender.description,
                          closingDate |-> date,
                          siteVisits |-> IF Falsy(tender.siteVisits) THEN ""
                                         ELSE tender.siteVisits],
            !.siteVisitInputs = IF Falsy(tender.siteVisits) THEN <<"">>
                                ELSE SplitVisits(tender.siteVisits),
            !.showForm = TRUE]

\* _handleSubmit(e) from the await to the end
VisitSubmitEnded(u, ok, rows) ==
  IF ok
    THEN VisitCancelFormOf(
           [u EXCEPT !.list = ReplaceById(u.list, u.editingId,
                                          transformTender(RowJson("tenders", rows[1])))])
    ELSE [u EXCEPT !.error = IF u.editingId # NoId THEN "Failed to update"
                                                   ELSE "Failed to create"]

\* this.tenders.find(t => t.siteVisits && visits-of-t.includes(currentVisit))
Holds(t, currentVisit) ==
  /\ ~Falsy(t.siteVisits)
  /\ \E j \in 1..Len(SplitVisits(t.siteVisits)) : SplitVisits(t.siteVisits)[j] = currentVisit

FindTender(list, currentVisit) ==
  list[CHOOSE i \in 1..Len(list) :
         /\ Holds(list[i], currentVisit)
         /\ \A j \in 1..(i - 1) : ~Holds(list[j], currentVisit)]

\* _toggleSiteVisitStatus(e, index, currentVisit) up to the await: the
\* string it sends for the tender it found (index counts from 1 here)
ToggledVisits(tender, index, currentVisit) ==
  Join(SetAt(SplitVisits(tender.siteVisits), index,
             IF StartsWithMarker(currentVisit) THEN WithoutMarker(currentVisit)
                                               ELSE Marker \o currentVisit))

\* _toggleSiteVisitStatus from the await to the end
ToggleEnded(u, id, ok, rows) ==
  IF ok THEN [u EXCEPT !.list = ReplaceById(u.list, id,
                                            transformTender(RowJson("tenders", rows[1])))]
        ELSE [u EXCEPT !.error = "Failed to update site visit status"]

\* the tenders stored before the component is opened: complete rows that
\* differ in their site visits
VisitRow(i, visits) ==
  InsertRow(i, [FullBody("tenders").obj EXCEPT !.site_visits = visits], i - 1)

NoClick == [cid |-> 0, card |-> NoId, entry |-> 0, text |-> ""]

VisitInit ==
  /\ module = "tenders.js"
  /\ dbUrl = TRUE
  /\ pool = "created"
  /\ poolMade = 1
  /\ \E n \in 1..MaxSeed :
       /\ \E v \in [1..n -> VisitStrings \cup {Null}] :
            table = {VisitRow(i, v[i]) : i \in 1..n}
       /\ nextId = n + 1
       /\ now = n - 1
       /\ created = 1..n
  /\ inflight = {}
  /\ served = 0
  /\ resp = NoResponse
  /\ updated = {}
  /\ deleted = {}
  /\ writes = <<>>
  /\ ClientIdle
  /\ PathIdle
  /\ ui = VisitConstructed
  /\ calls = {}
  /\ hist = NoClick

\* the round button and the Cancel button of the form
VisitToggleForm ==
  /\ ui' = IF ui.showForm THEN VisitResetForm([ui EXCEPT !.showForm = FALSE])
                          ELSE [ui EXCEPT !.showForm = TRUE]
  /\ UNCHANGED <<calls, hist, served, uiFrame>>

VisitCancelForm ==
  /\ ui.showForm
  /\ ui' = VisitCancelFormOf(ui)
  /\ UNCHANGED <<calls, hist, served, uiFrame>>

\* Edit in the menu of card i
VisitEdit(i, date) ==
  /\ ~ui.loading
  /\ date \in FormatDate(ui.list[i].closingDate)
  /\ ui' = VisitEditOf(ui, ui.list[i], date)
  /\ UNCHANGED <<calls, hist, served, uiFrame>>

\* the form is submitted (description and closing date are required)
VisitSubmit ==
  /\ ui.showForm
  /\ ui.formData.description # ""
  /\ ui.formData.closingDate # ""
  /\ IF ui.editingId # NoId
       THEN Issue("update", ui.editingId, TenderUpdate(ui.editingId, ui.formData))
       ELSE Issue("create", NoId, TenderCreate(ui.formData))
  /\ ui' = [ui EXCEPT !.error = Null]
  /\ UNCHANGED <<hist, uiFrame>>

\* a click on the entry drawn at place index of the site visits of card i;
\* hist keeps what was clicked
ToggleVisit(i, index) ==
  /\ ~ui.loading
  /\ ~Falsy(ui.list[i].siteVisits)
  /\ index \in 1..Len(NonEmpty(SplitVisits(ui.list[i].siteVisits)))
  /\ LET currentVisit == NonEmpty(SplitVisits(ui.list[i].siteVisits))[index]
         tender == FindTender(ui.list, currentVisit)
     IN /\ Issue("toggle", tender.id,
                 TenderUpdate(tender.id,
                   [description |-> tender.description,
                    closingDate |-> tender.closingDate,
                    siteVisits |-> ToggledVisits(tender, index, currentVisit)]))
        /\ hist' = [cid |-> served + 1, card |-> ui.list[i].id, entry |-> index,
                    text |-> ui.list[i].siteVisits]
  /\ UNCHANGED <<ui, uiFrame>>

\* the response of call c reaches the component
VisitDeliver(c) ==
  /\ c \in calls
  /\ c.phase = "answered"
  /\ calls' = calls \ {c}
  /\ LET ok == Ok(c.res)
         rows == c.res.body.rows
     IN ui' = CASE c.op = "load" -> LoadEnded(ui, "tenders", ok, rows)
                [] c.op \in {"create", "update"} -> VisitSubmitEnded(ui, ok, rows)
                [] c.op = "toggle" -> ToggleEnded(ui, c.id, ok, rows)
  /\ UNCHANGED <<hist, served, uiFrame>>

VisitNext ==
  \/ Load
  \/ VisitToggleForm
  \/ VisitCancelForm
  \/ \E i \in 1..Len(ui.list) : \E d \in FormatDate(ui.list[i].closingDate) : VisitEdit(i, d)
  \/ VisitSubmit
  \/ \E i \in 1..Len(ui.list), index \in 1..MaxVisits : ToggleVisit(i, index)
  \/ \E c \in calls, fault \in BOOLEAN :
       \E rows \in (IF c.req.method = "GET" THEN SelectOrdered(table) ELSE {<<>>}) :
         Serve(c, fault, rows)
  \/ \E c \in calls : VisitDeliver(c)

VisitSpec == VisitInit /\ [][VisitNext]_vars

\* ---- the id of a path ---------------------------------------------------
\* event.path: "/" first, and text only between two slashes
PathTokens == {"/", "tasks", "tenders", "1", "api"}

WellFormed(p) ==
  /\ p[1] = "/"
  /\ \A i \in 1..(Len(p) - 1) : p[i] # "/" => p[i + 1] = "/"

Paths ==
  {p \in UNION {[1..n -> PathTokens] : n \in 1..MaxPathLen} : WellFormed(p)}

\* status 0: the handler went on to its statement
Probe(st, p, id, method, status) ==
  [stage |-> st, path |-> p, id |-> id, method |-> method, status |-> status]

PathInit ==
  /\ ServerIdle
  /\ ClientIdle
  /\ UiIdle
  /\ \E p \in Paths : probe = Probe("given", p, Undefined, "", 0)

\* const pathParts = path.split('/'); const id = ...
ExtractStep ==
  /\ probe.stage = "given"
  /\ probe' = Probe("extracted", probe.path, ExtractId(probe.path, Coll), "", 0)
  /\ UNCHANGED <<serverVars, clientVars, uiVars>>

\* switch (httpMethod): what the PUT and the DELETE branch do with the id
DispatchStep(method) ==
  /\ probe.stage = "extracted"
  /\ LET out == Dispatch(Coll, method, probe.path, FullBody(Coll))
     IN probe' = Probe("dispatched", probe.path, out.id, method,
                       IF out.reply = <<>> THEN 0 ELSE out.reply[1].statusCode)
  /\ UNCHANGED <<serverVars, clientVars, uiVars>>

PathNext == ExtractStep \/ \E method \in {"PUT", "DELETE"} : DispatchStep(method)

PathSpec == PathInit /\ [][PathNext]_vars

\* ---- vocabulary of the properties ----------------------------------------

\* the step produces a response
Answered == resp'.rid # resp.rid

\* the text after the last "/" of a path
LastSegment(p) == IF p[Len(p)] = "/" THEN "" ELSE p[Len(p)]

\* the response refuses the request because the pool could not be set up
ConfigFailure(r) == r.res \in {ConfigErrorResponse, ConnectionErrorResponse}

RowsOf(r) == r.res.body.rows
RowIds(rows) == {rows[i].id : i \in 1..Len(rows)}
RowSet(rows) == {rows[i] : i \in 1..Len(rows)}

\* ---- C1 -----------------------------------------------------------------
\* C1: an OPTIONS request is answered 200 with an empty body and without
\* any storage statement, in every configuration state of the process.
C1_PreflightFirst ==
  resp.method = "OPTIONS" =>
    /\ resp.res.statusCode = 200
    /\ resp.res.body.kind = "empty"
    /\ resp.stmt = "none"

\* ---- C2 -----------------------------------------------------------------
\* C2: without DATABASE_URL no statement is ever sent to the pool and every
\* request is answered with the configuration-error response.  (OPTIONS is
\* left out of the response part: C1 gives the preflight its own answer.)
C2_NoUrlFailsFast ==
  ~dbUrl =>
    /\ inflight = {}
    /\ resp.stmt = "none"
    /\ (resp.rid # 0 /\ resp.method # "OPTIONS" => resp.res = ConfigErrorResponse)

\* ---- C3 -----------------------------------------------------------------
\* a create payload the data model accepts: the three required fields are
\* non-empty strings and a task's status is missing or one of the enum
ValidCreate(coll, b) ==
  /\ b.kind = "object"
  /\ \A i \in 1..3 : ~Falsy(b.obj[Columns(coll)[i]])
  /\ coll = "tasks" => b.obj["status"] \in {Undefined, "PENDING", "SENT", "COMPLETED"}

\* C3: a POST with a valid payload whose INSERT is executed returns 201 and
\* the new row: every field the client supplied has the supplied value, the
\* id is a new one, created_at = updated_at, and the table is the old table
\* plus that row.
C3_CreateReturnsInput ==
  [][Answered /\ resp'.method = "POST" /\ resp'.stmt = "ok"
       /\ ValidCreate(Coll, resp'.sent)
     => /\ resp'.res.statusCode = 201
        /\ Len(RowsOf(resp')) = 1
        /\ LET row == RowsOf(resp')[1]
           IN /\ \A c \in ColumnSet(Coll) :
                   resp'.sent.obj[c] # Undefined => row.data[c] = resp'.sent.obj[c]
              /\ row.id \in Nat \ {0}
              /\ row.id \notin Ids(table)
              /\ row.created_at \in Nat
              /\ row.created_at = row.updated_at
              /\ row \notin table
              /\ table' = table \cup {row}]_vars

C3_Witness ==
  /\ resp.method = "POST"
  /\ resp.res.statusCode = 201
  /\ ValidCreate(Coll, resp.sent)
  /\ resp.sent.obj[Columns(Coll)[4]] # Undefined
  /\ Cardinality(table) >= 2

\* ---- C4 -----------------------------------------------------------------
\* C4: as long as nothing was deleted, a GET whose SELECT is executed
\* returns 200 and one record for each row created so far, each once, a
\* record created earlier never before one created later.
C4_ListAllNewestFirst ==
  [][Answered /\ resp'.method = "GET" /\ resp'.stmt = "ok" /\ deleted = {}
     => LET rows == RowsOf(resp')
        IN /\ resp'.res.statusCode = 200
           /\ Len(rows) = Cardinality(created)
           /\ RowIds(rows) = created
           /\ \A i, j \in 1..Len(rows) :
                rows[i].created_at < rows[j].created_at => j < i]_vars

C4_Witness ==
  /\ resp.method = "GET"
  /\ resp.res.statusCode = 200
  /\ deleted = {}
  /\ Len(RowsOf(resp)) >= 2
  /\ RowsOf(resp)[1].created_at > RowsOf(resp)[2].created_at
  /\ RowsOf(resp)[1].id > RowsOf(resp)[2].id

\* ---- C5 -----------------------------------------------------------------
\* C5: a PUT answered 200 returns the updated row; that row has the id of
\* the path, each of the four columns holds the value of the body (NULL for
\* a field the body lacks), updated_at is the time of the statement, and
\* every other row of the table is as before.
C5_UpdateOverwritesAll ==
  [][Answered /\ resp'.method = "PUT" /\ resp'.res.statusCode = 200
     => /\ Len(RowsOf(resp')) = 1
        /\ LET new == RowsOf(resp')[1]
               old == {r \in table : r.id = new.id}
           IN /\ new.id = IdOf(resp'.id)
              /\ Cardinality(old) = 1
              /\ \A c \in ColumnSet(Coll) :
                   new.data[c] = IF resp'.sent.obj[c] = Undefined
                                   THEN Null ELSE resp'.sent.obj[c]
              /\ new.updated_at = now'
              /\ new \in table'
              /\ table' \ {new} = table \ old]_vars

C5_Witness ==
  /\ resp.method = "PUT"
  /\ resp.res.statusCode = 200
  /\ \E c \in ColumnSet(Coll) :
       resp.sent.obj[c] = Undefined /\ RowsOf(resp)[1].data[c] = Null
  /\ RowsOf(resp)[1].updated_at > RowsOf(resp)[1].created_at
  /\ Cardinality(table) >= 2

\* ---- C6 -----------------------------------------------------------------
\* C6: a PUT whose id matches no row, once its UPDATE is executed, is
\* answered 404 and leaves the table as it was; a GET returns exactly the
\* rows of the table, so the next list shows the records from before.
C6_UpdateUnknownId ==
  [][Answered /\ resp'.stmt = "ok"
     => /\ resp'.method = "PUT" /\ IdOf(resp'.id) \notin Ids(table)
             => resp'.res.statusCode = 404 /\ table' = table
        /\ resp'.method = "GET"
             => /\ RowSet(RowsOf(resp')) = table
                /\ Len(RowsOf(resp')) = Cardinality(table)
                /\ table' = table]_vars

C6_Witness ==
  /\ resp.method = "PUT"
  /\ resp.stmt = "ok"
  /\ resp.res.statusCode = 404
  /\ table # {}
  /\ IdOf(resp.id) \notin Ids(table)

\* ---- C7 -----------------------------------------------------------------
\* C7: once its statement is executed, a DELETE of an id that matches no row
\* is answered 404 and changes nothing; a DELETE of an existing id is
\* answered 200 and removes that row and no other; from then on no GET
\* returns a record with that id and a DELETE of it is answered 404.
C7_DeleteRemovesForGood ==
  [][Answered /\ resp'.stmt = "ok"
     => /\ resp'.method = "DELETE" /\ IdOf(resp'.id) \notin Ids(table)
             => resp'.res.statusCode = 404 /\ table' = table
        /\ resp'.method = "DELETE" /\ IdOf(resp'.id) \in Ids(table)
             => /\ resp'.res.statusCode = 200
                /\ table' = {r \in table : r.id # IdOf(resp'.id)}
                /\ Cardinality(table') = Cardinality(table) - 1
        /\ resp'.method = "DELETE" /\ IdOf(resp'.id) \in deleted
             => resp'.res.statusCode = 404
        /\ resp'.method = "GET"
             => RowIds(RowsOf(resp')) \cap deleted' = {}]_vars

C7_Witness ==
  /\ resp.method = "DELETE"
  /\ resp.stmt = "ok"
  /\ resp.res.statusCode = 404
  /\ IdOf(resp.id) \in deleted
  /\ table # {}

\* ---- C8 -----------------------------------------------------------------
\* C8 as claimed: the body of a DELETE answered 200 carries the id of the
\* deleted row.
C8_DeleteReturnsId ==
  resp.method = "DELETE" /\ resp.res.statusCode = 200
    => /\ Len(RowsOf(resp)) = 1
       /\ RowsOf(resp)[1].id = IdOf(resp.id)

\* C8 as amended: the body of a DELETE answered 200 is the fixed
\* confirmation message of the resource and carries no field of the deleted
\* row; the row is the one named by the id of the request path.
C8_DeleteReturnsMessage ==
  resp.method = "DELETE" /\ resp.res.statusCode = 200
    => /\ resp.res.body.kind = "message"
       /\ resp.res.body.text = IF Coll = "tasks" THEN "Task deleted successfully"
                                                ELSE "Tender deleted successfully"
       /\ RowsOf(resp) = <<>>
       /\ IdOf(resp.id) \in deleted

C8_Witness ==
  /\ resp.method = "DELETE"
  /\ resp.res.statusCode = 200
  /\ table # {}

\* ---- C9 -----------------------------------------------------------------
C9_RowInvariant ==
  /\ \A r, q \in table : r.id = q.id => r = q
  /\ Ids(table) \cap deleted = {}
  /\ \A r \in table : r.id \notin updated => r.updated_at = r.created_at
  /\ \A r \in table : r.created_at <= r.updated_at

C9_RowStep ==
  /\ \A r \in table' : r.id \notin Ids(table) => r.id \notin created \cup deleted
  /\ \A r \in table, q \in table' :
       r.id = q.id => q.created_at = r.created_at /\ q.updated_at >= r.updated_at

\* C9: in every table state ids are unique and no row has the id of a
\* deleted row; a new row never gets an id used before; a row keeps its
\* created_at, its updated_at never decreases and equals created_at as long
\* as no PUT on the row was answered 200.
C9_IdsAndTimestamps == []C9_RowInvariant /\ [][C9_RowStep]_vars

C9_Witness ==
  /\ deleted # {}
  /\ \E r \in table : r.id \in updated /\ r.updated_at > r.created_at

\* ---- C10 ----------------------------------------------------------------
\* no suspended PUT or DELETE has a path ending in the collection name or in "/"
C10_NoStatementWithoutId ==
  \A inv \in inflight :
    inv.req.method \in {"PUT", "DELETE"} => LastSegment(inv.req.path) \notin {Coll, ""}

\* C10: a PUT or DELETE whose path ends in the collection name or in an
\* empty segment, in a process that has its pool, is answered 400 in the
\* step it arrives in, with the body unparsed, no statement issued and the
\* table unchanged.
C10_IdRequired ==
  /\ []C10_NoStatementWithoutId
  /\ [][Answered /\ resp'.method \in {"PUT", "DELETE"}
          /\ LastSegment(resp'.path) \in {Coll, ""} /\ ~ConfigFailure(resp')
        => /\ resp'.res.statusCode = 400
           /\ resp'.body.kind = "unread"
           /\ resp'.stmt = "none"
           /\ inflight' = inflight
           /\ table' = table]_vars

C10_Witness ==
  /\ resp.method = "PUT"
  /\ resp.res.statusCode = 400
  /\ resp.sent.kind = "bad"
  /\ LastSegment(resp.path) = Coll
  /\ table # {}

\* ---- C11 ----------------------------------------------------------------
\* C11: in a process that has its pool, a request whose method is none of
\* OPTIONS, GET, POST, PUT, DELETE is answered 405 "Method not allowed"
\* whatever its path; it is never suspended on a statement and its step
\* leaves the table as it was.
SupportedMethods == {"OPTIONS", "GET", "POST", "PUT", "DELETE"}

C11_NeverSuspended ==
  \A inv \in inflight : inv.req.method \in SupportedMethods

C11_AnsweredAtOnce ==
  Answered /\ resp'.method \notin SupportedMethods /\ ~ConfigFailure(resp') =>
    /\ resp'.res = ErrorResponse(405, CorsHeaders, "Method not allowed")
    /\ resp'.stmt = "none"
    /\ inflight' = inflight
    /\ table' = table /\ nextId' = nextId

C11_UnknownMethod == []C11_NeverSuspended /\ [][C11_AnsweredAtOnce]_vars

C11_Witness ==
  /\ resp.method = "HEAD"
  /\ LastSegment(resp.path) = Coll
  /\ resp.res.statusCode = 405
  /\ table # {}
  /\ inflight # {}

\* ---- C12 ----------------------------------------------------------------
\* C12: no invocation ends in an exception: every answer is a response with
\* one of the handler's status codes; an invocation whose body could not be
\* read or whose statement failed is answered 500 "Internal server error";
\* and every suspended invocation can return, whether its statement
\* succeeds or fails.
StatusCodes == {200, 201, 400, 404, 405, 500}

C12_FaultsBecome500 ==
  /\ resp.res # Thrown
  /\ resp.rid # 0 => resp.res.statusCode \in StatusCodes
  /\ resp.stmt = "fault" \/ resp.body.kind \in {"bad", "null"} =>
       resp.res = ErrorResponse(500, CorsHeaders, "Internal server error")
  /\ \A inv \in inflight : \A fault \in BOOLEAN :
       ENABLED (\E rows \in ResultChoices(inv) : Complete(inv, fault, now, rows))

C12_Witness ==
  /\ resp.stmt = "fault"
  /\ resp.method = "DELETE"
  /\ resp.res.statusCode = 500
  /\ Matching(table, resp.id) # {}

\* ---- C13 ----------------------------------------------------------------
\* C13: in a process that has its pool, a POST, or a PUT with an id, whose
\* body is not JSON is answered with the generic 500 and nothing else: the
\* invocation is never suspended on a statement and the table stays as it
\* was.  A PUT that also lacks the id is answered with the 400 of the
\* missing id.
C13_NeverSuspended ==
  \A inv \in inflight :
    inv.req.method \in {"POST", "PUT"} => inv.req.body.kind # "bad"

C13_AnsweredAtOnce ==
  Answered /\ resp'.method \in {"POST", "PUT"} /\ resp'.sent.kind = "bad"
           /\ ~ConfigFailure(resp') =>
    /\ resp'.res =
         IF resp'.method = "PUT" /\ LastSegment(resp'.path) \in {Coll, ""}
           THEN ErrorResponse(400, CorsHeaders, "ID is required for update")
           ELSE ErrorResponse(500, CorsHeaders, "Internal server error")
    /\ resp'.stmt = "none"
    /\ inflight' = inflight
    /\ table' = table /\ nextId' = nextId

C13_MalformedBody == []C13_NeverSuspended /\ [][C13_AnsweredAtOnce]_vars

C13_Witness ==
  /\ resp.method = "PUT"
  /\ resp.sent.kind = "bad"
  /\ LastSegment(resp.path) = "1"
  /\ resp.res.statusCode = 500
  /\ \E r \in table : r.id = 1 /\ r.id \notin updated

\* ---- C14 ----------------------------------------------------------------
\* C14: a process makes at most one pool, whatever the sequence and the
\* interleaving of its invocations: new Pool(...) returns a pool at most
\* once, the handle is set exactly when that pool exists, and once set it
\* is neither replaced nor unset, so that no later request is refused for
\* want of a pool.
C14_AtMostOne ==
  /\ poolMade <= 1
  /\ pool = "created" <=> poolMade = 1

C14_Kept ==
  pool = "created" =>
    /\ pool' = pool
    /\ poolMade' = poolMade
    /\ Answered => ~ConfigFailure(resp')

BodyValues(obj) == [c \in DOMAIN obj |-> IF obj[c] = Undefined THEN Null ELSE obj[c]]

WritesTo(id) == SelectSeq(writes, LAMBDA w : w.id = id)

C15_LastWriteWins ==
  \A r \in table :
    LET W == WritesTo(r.id)
    IN W # <<>> => r.data = BodyValues(W[Len(W)].body)

C15_NoConflict ==
  Answered /\ resp'.method = "PUT" /\ resp'.stmt = "ok"
           /\ Matching(table, resp'.id) # {} =>
    /\ resp'.res.statusCode = 200
    /\ resp'.res.body.kind = "row"
    /\ RowSet(RowsOf(resp')) = Matching(table', resp'.id)
    /\ \A r \in Matching(table', resp'.id) : r.data = BodyValues(resp'.sent.obj)

C15_ConcurrentUpdates == []C15_LastWriteWins /\ [][C15_NoConflict]_vars

\* two PUTs with different bodies changed the same row, and the one that
\* executed last was already suspended when the other one executed
C15_Witness ==
  /\ Len(writes) = 2
  /\ writes[1].id = writes[2].id
  /\ writes[1].body # writes[2].body
  /\ writes[2].rid <= writes[1].seen
  /\ resp.rid = writes[2].rid
  /\ resp.res.statusCode = 200
  /\ \E r \in table : r.id = writes[2].id /\ r.data = BodyValues(writes[2].body)

\* ---- C16 ----------------------------------------------------------------
\* C16: a fetched row that is transformed and handed to the update call
\* unedited gives a PUT for the row's id whose body has every mutable
\* storage field with the value of the row, and none of id, created_at,
\* updated_at.
C16_RoundTrip ==
  stage = "sent" =>
    /\ putReq.method = "PUT"
    /\ IdOf(LastSegment(putReq.path)) = fetched["id"]
    /\ \A c \in ColumnSet(Coll) :
         c \in DOMAIN putReq.body /\ putReq.body[c] = fetched[c]
    /\ DOMAIN putReq.body \cap {"id", "created_at", "updated_at"} = {}

C16_Witness ==
  /\ stage = "sent"
  /\ Coll = "tasks"
  /\ fetched["due_date"] = Null
  /\ fetched["status"] = "v2"
  /\ putReq.body["status"] = "v2"
  /\ fetched["updated_at"] > fetched["created_at"]

\* ---- C17 ----------------------------------------------------------------
\* C17 as claimed: every field of the storage row, updated_at included, is
\* found under its camel-case name in the transformed record.
CamelCase(f) ==
  CASE f = "tender_number" -> "tenderNumber"
    [] f = "closing_date" -> "closingDate"
    [] f = "site_visits" -> "siteVisits"
    [] f = "assigned_to" -> "assignedTo"
    [] f = "due_date" -> "dueDate"
    [] f = "created_at" -> "createdAt"
    [] f = "updated_at" -> "updatedAt"
    [] OTHER -> f

Mapped(f) ==
  CamelCase(f) \in DOMAIN shown /\ shown[CamelCase(f)] = fetched[f]

C17_TransformTotal ==
  stage \in {"shown", "sent"} => \A f \in DOMAIN fetched : Mapped(f)

\* C17: the transformed record has the id, the four mutable fields and
\* created_at of the row under their camel-case names, and nothing else:
\* updated_at is dropped.
C17_AllButUpdatedAt ==
  stage \in {"shown", "sent"} =>
    /\ \A f \in DOMAIN fetched \ {"updated_at"} : Mapped(f)
    /\ DOMAIN shown = {CamelCase(f) : f \in DOMAIN fetched \ {"updated_at"}}

C17_Witness ==
  /\ stage = "shown"
  /\ Coll = "tenders"
  /\ fetched["updated_at"] > fetched["created_at"]
  /\ shown.createdAt = fetched["created_at"]
  /\ "updatedAt" \notin DOMAIN shown

\* ---- C18 ----------------------------------------------------------------
\* C18: every response except the two of the pool set-up (configuration
\* error, connection error) carries Access-Control-Allow-Origin: *,
\* Access-Control-Allow-Methods: GET, POST, PUT, DELETE, OPTIONS and
\* Access-Control-Allow-Headers: Content-Type, whatever its status code.
CorsSet ==
  { <<"Access-Control-Allow-Origin", "*">>,
    <<"Access-Control-Allow-Methods", "GET, POST, PUT, DELETE, OPTIONS">>,
    <<"Access-Control-Allow-Headers", "Content-Type">> }

C18_CorsOnEveryResponse ==
  resp.rid # 0 /\ ~ConfigFailure(resp) => CorsSet \subseteq resp.res.headers

C18_Witness ==
  /\ resp.method = "DELETE"
  /\ resp.res.statusCode = 404
  /\ CorsSet \subseteq resp.res.headers
  /\ resp.stmt = "ok"

\* ---- C19 ----------------------------------------------------------------
\* C19 as claimed: a task POST without status is stored and returned with
\* status PENDING, and every POST that has a status property is stored and
\* returned with that very status.
CreatedTask(r) ==
  /\ Coll = "tasks"
  /\ r.method = "POST"
  /\ r.stmt = "ok"

C19_DefaultOnlyWhenMissing ==
  CreatedTask(resp) =>
    \A row \in RowSet(RowsOf(resp)) :
      /\ row \in table
      /\ row.data["status"] =
           IF resp.sent.obj["status"] = Undefined THEN "PENDING"
           ELSE resp.sent.obj["status"]

\* C19: a task POST whose status is missing, null or the empty string is
\* stored and returned with status PENDING; a POST with any other status is
\* stored and returned with that status.
C19_DefaultWhenFalsy ==
  CreatedTask(resp) =>
    /\ resp.res.statusCode = 201
    /\ Len(RowsOf(resp)) = 1
    /\ \A row \in RowSet(RowsOf(resp)) :
         /\ row \in table
         /\ row.data["status"] =
              IF resp.sent.obj["status"] \in {Undefined, Null, ""} THEN "PENDING"
              ELSE resp.sent.obj["status"]

C19_Witness ==
  /\ CreatedTask(resp)
  /\ resp.sent.obj["status"] = ""
  /\ \E row \in table : row.id = RowsOf(resp)[1].id /\ row.data["status"] = "PENDING"

\* ---- C20 ----------------------------------------------------------------
\* C20: in a process that has its pool an invocation sends exactly one
\* statement if it is a GET, a POST with a readable body, a PUT with an id
\* and a readable body or a DELETE with an id, and none otherwise (OPTIONS,
\* the 400 of a missing id, the 405, an unreadable body); an invocation
\* that was answered has no statement outstanding, and one whose statement
\* failed was answered 500 at once.
HasId(p) == LastSegment(p) \notin {Coll, ""}

SendsStatement(method, path, body) ==
  \/ method = "GET"
  \/ method = "POST" /\ body.kind = "object"
  \/ method = "PUT" /\ HasId(path) /\ body.kind = "object"
  \/ method = "DELETE" /\ HasId(path)

C20_OneStatement ==
  /\ \A inv \in inflight :
       /\ Len(inv.out.stmt) = 1
       /\ SendsStatement(inv.req.method, inv.req.path, inv.req.body)
       /\ inv.rid # resp.rid
       /\ \A other \in inflight : other.rid = inv.rid => other = inv
  /\ resp.rid # 0 /\ ~ConfigFailure(resp) =>
       (resp.stmt # "none" <=> SendsStatement(resp.method, resp.path, resp.sent))
  /\ resp.method = "OPTIONS" \/ resp.res.statusCode \in {400, 405} =>
       resp.stmt = "none"
  /\ resp.stmt = "fault" => resp.res.statusCode = 500

C20_Witness ==
  /\ resp.stmt = "fault"
  /\ resp.method = "GET"
  /\ resp.res.statusCode = 500
  /\ inflight # {}
  /\ \A inv \in inflight : inv.rid < resp.rid

\* ---- C21 ----------------------------------------------------------------
\* C21: the id of a path is the text after its last "/" (empty when the
\* path ends in "/"), except that there is no id when that text is the
\* collection name of the handler; PUT and DELETE answer 400 exactly for
\* the paths without id and the paths with the empty id, and go on to
\* their statement for all others.
C21_PathId ==
  probe.stage \in {"extracted", "dispatched"} =>
    /\ probe.id = IF LastSegment(probe.path) = Coll THEN Null
                  ELSE LastSegment(probe.path)
    /\ probe.stage = "dispatched" =>
         probe.status = IF LastSegment(probe.path) \in {Coll, ""} THEN 400 ELSE 0

C21_Witness ==
  /\ probe.stage = "dispatched"
  /\ probe.path = <<"/", "api", "/", "1", "/">>
  /\ probe.id = ""
  /\ probe.method = "DELETE"
  /\ probe.status = 400

\* ---- C22 ----------------------------------------------------------------
\* C22: the tasks handler does not validate the status: a POST or PUT whose
\* status is a string other than PENDING, SENT, COMPLETED and whose
\* statement executes is answered 201 resp. 200 (404 for a PUT to a record
\* that does not exist) with the row, stored with the status as given.
OddStatus(v) == v \notin {Undefined, Null, "", "PENDING", "SENT", "COMPLETED"}

C29_GoneForGood == Ids(table) \cap deleted = {}

C29_FirstStatementWins ==
  Answered /\ resp'.stmt = "ok" /\ resp'.method \in {"PUT", "DELETE"} =>
    LET hit == Matching(table, resp'.id)
    IN /\ resp'.res.statusCode = IF hit = {} THEN 404 ELSE 200
       /\ resp'.method = "DELETE" =>
            /\ table' = table \ hit
            /\ Ids(hit) \cap deleted = {}
            /\ deleted' = deleted \cup Ids(hit)
       /\ resp'.method = "PUT" => Ids(table') = Ids(table)

C29_ConcurrentDelete == []C29_GoneForGood /\ [][C29_FirstStatementWins]_vars

\* the DELETE that arrived first executed after a later one and got the 404
C29_Witness ==
  /\ resp.method = "DELETE"
  /\ resp.rid = 1
  /\ resp.stmt = "ok"
  /\ resp.res.statusCode = 404
  /\ IdOf(resp.id) \in deleted
  /\ IdOf(resp.id) \notin updated

\* ---- the list components ----
\* C23: in every state of TaskList and TenderList a closed form means that no
\* edit is pending: showForm false implies editingId null, so that the form
\* opened with the round button always submits a create.
\* (Violated: _editTask and then the round button close the form through
\* _toggleForm, which resets the fields but keeps editingId.)
C23_ClosedFormNoEdit == ~ui.showForm => ui.editingId = NoId

\* C28: the loading flag is true whenever at least one load is in flight, and
\* false only when none is, under overlapping loads.
\* (Violated: the finally block of the load that ends first clears the flag
\* while the other load is still in flight.)
C28_LoadingWhileInFlight == (\E c \in calls : c.op = "load") => ui.loading

\* the step in which the response of call c reaches the component
Delivered(c) == c \in calls /\ c.phase = "answered" /\ calls' = calls \ {c}

\* the record a successful response carries
Returned(c) == Transform(Coll, RowJson(Coll, c.res.body.rows[1]))

\* C27: when the update of an edit form succeeds, the component replaces in
\* its list exactly the entry whose id was editingId when the form was
\* submitted by the returned record and leaves every other entry as it was,
\* also when the form was cancelled or another record was opened for editing
\* while the request was in flight.
\* (Violated: the entry is chosen by editingId as it is when the response
\* arrives.)
C27_ReplacesSubmitted ==
  [][\A c \in calls :
       (Delivered(c) /\ c.op = "update" /\ Ok(c.res))
         => ui'.list = ReplaceById(ui.list, c.id, Returned(c))]_vars

\* the records the component shows, and the records of the table as the
\* component would show them
Listed == {ui.list[i] : i \in 1..Len(ui.list)}
Stored == {Transform(Coll, RowJson(Coll, r)) : r \in table}

\* C26: with one client, once every request of the component has completed
\* (a load among them, none of them failed), the list of the component holds
\* exactly the records of the table, whatever the interleaving of reloads
\* with creates, updates and deletes.
\* (Violated: the response of a load served before a create but delivered
\* after it replaces the list by the older rows.)
C26_ListMatchesTable ==
  (calls = {} /\ hist.loaded /\ ~hist.failed) => Listed = Stored

\* C30: when a create, update or delete of a list component fails (the server
\* answers with a non-success status and fetchAPI throws), the list is left
\* as it was and the error message is set; for a create or update the form
\* stays as it was: open, with the entered data and editingId.
C30_FailureKeepsState ==
  [][\A c \in calls :
       (Delivered(c) /\ c.op \in {"create", "update", "status", "delete"} /\ ~Ok(c.res))
         => /\ ui'.list = ui.list
            /\ ui'.error # Null
            /\ c.op \in {"create", "update"}
                 => /\ ui'.showForm = ui.showForm
                    /\ ui'.formData = ui.formData
                    /\ ui'.editingId = ui.editingId]_vars

\* a failed update has come back: its form is still open with what was typed
C30_Witness ==
  /\ hist.failed
  /\ calls = {}
  /\ ui.error = "Failed to update"
  /\ ui.showForm
  /\ ui.editingId # NoId
  /\ ui.formData.description = "v3"

\* ---- the tender list with site visits ----
\* C24: an update sent by the tender list, from the edit form or from a click
\* on a site visit, leaves the stored tender_number of the tender as it was.
\* (Violated: neither the form nor the click sends a tender number, and the
\* handler writes the missing value as NULL.)
C24_TenderNumberKept ==
  \A r \in table :
    r.id \in created => r.data.tender_number = FullBody("tenders").obj.tender_number

\* the entry drawn at place k, in the list of all entries
PlaceOf(visits, k) ==
  CHOOSE j \in 1..Len(visits) :
    /\ visits[j] # ""
    /\ Cardinality({m \in 1..j : visits[m] # ""}) = k

\* the list with only the entry drawn at place k toggled
OnlyToggled(visits, k) ==
  [visits EXCEPT ![PlaceOf(visits, k)] =
     IF StartsWithMarker(@) THEN WithoutMarker(@) ELSE Marker \o @]

\* C25: a click on a site visit of a card sends the update for the tender of
\* that card, with only the clicked entry toggled and every other entry as it
\* was, also when another tender holds an entry of the same text or the
\* string holds empty entries.
\* (Violated: the tender is looked up by the text of the entry, and the place
\* counted without empty entries is used in the list with them.)
C25_TogglesClicked ==
  \A c \in calls :
    (c.op = "toggle" /\ c.cid = hist.cid)
      => /\ c.id = hist.card
         /\ c.req.body.site_visits = Join(OnlyToggled(SplitVisits(hist.text), hist.entry))

====
